---- MODULE Spec2Model ----
(***************************************************************************)
(* Model of survon-installer.rs: the terminal session set up and torn down *)
(* by main, the event loop, draw_ui and run_install.                       *)
(*                                                                         *)
(* Strings are sequences of tokens.  The token "PROGRESS:" stands for the  *)
(* nine characters of that prefix, "ERROR:" for the six of the other one,  *)
(* "Error: " for the text the code prepends to an error; " " and "\n" are  *)
(* white space; every other token is one ordinary character.              *)
(***************************************************************************)
EXTENDS Integers, Sequences, FiniteSets, TLC

VARIABLES
    pc,            \* control position of main / draw_ui / run_install
    ret,           \* caller of the running run_install: "draw" or "enter"
    raw_mode,      \* terminal raw mode is enabled
    alt_screen,    \* terminal alternate screen is entered
    exit_status,   \* result of main: "none" (running), "ok", "err"
    exit_path,     \* which statement ended the event loop
    selected,      \* AppState.selected
    installing,    \* AppState.installing
    current_step,  \* AppState.current_step
    model_choice,  \* AppState.model_choice
    custom_url,    \* AppState.custom_url
    input,         \* draw_ui's local `input` after read_line
    install,       \* latest run_install call: "none", "running", "ok", "err"
    child,         \* latest child process: "none", "running", "exited", "reaped"
    child_out,     \* lines next_line() returned for the latest run_install
    exit_code,     \* status child.wait() returned, -1 if none
    args,          \* arguments of the latest successful spawn
    nspawn,        \* children spawned so far
    nwait,         \* exit statuses obtained for the latest child
    steps,         \* values the PROGRESS: arm gave current_step in this run_install
    to_write,      \* lines the latest child has still to write to its stdout
    pipe,          \* lines written to the stdout pipe and not yet read
    nkeys,         \* events read so far
    last_key,      \* the latest event read
    prev_selected, \* selected before the latest event was handled
    error_text,    \* text after the prefix of the latest ERROR: line seen
    frame          \* what the latest terminal.draw rendered

vars == <<pc, ret, raw_mode, alt_screen, exit_status, exit_path, selected,
          installing, current_step, model_choice, custom_url, input, install,
          child, child_out, exit_code, args, nspawn, nwait, steps, to_write,
          pipe, nkeys, last_key, prev_selected, error_text, frame>>

\* Number of terminal events the operator produces in one run.
MaxKeys == 3
\* Number of lines one child writes before closing its output.
MaxLines == 3
\* Number of lines the stdout pipe between child and installer holds.
PipeCap == 1

NoText == <<"<none>">>
NoInput == <<"<no input>">>

\* Lines a child may write.
Lines == { <<"PROGRESS:", "a">>,
           <<"PROGRESS:", "b">>,
           <<"PROGRESS:", "a", "PROGRESS:", "b">>,
           <<"ERROR:", "d">>,
           <<"ERROR:", "d", "ERROR:">>,
           <<"x">> }

\* Lines the operator may type at the "Enter URL: " prompt.
Inputs == { <<>>, <<"\n">>, <<" ", "\n">>, <<"u", "\n">>, <<" ", "u", " ", "\n">> }

\* Exit statuses of the child.
ExitCodes == {0, 1}

\* Terminal events: the four keys the loop matches, any other key, and an
\* event that is not a key.
Events == {"q", "Down", "Up", "Enter", "other", "resize"}

----------------------------------------------------------------------------
(* String helpers *)

StartsWith(line, tok) == line # <<>> /\ Head(line) = tok

\* str::replace(tok, ""): removes every occurrence of tok.
Replace(line, tok) == SelectSeq(line, LAMBDA t : t # tok)

IsWs(t) == t \in {" ", "\n"}

RECURSIVE TrimStart(_)
TrimStart(s) == IF s = <<>> \/ ~IsWs(Head(s)) THEN s ELSE TrimStart(Tail(s))

RECURSIVE TrimEnd(_)
TrimEnd(s) ==
    IF s = <<>> \/ ~IsWs(s[Len(s)]) THEN s ELSE TrimEnd(SubSeq(s, 1, Len(s) - 1))

\* str::trim
Trim(s) == TrimEnd(TrimStart(s))

\* current_step after a PROGRESS: line
ProgressStep(line) == Replace(line, "PROGRESS:")

\* current_step after an ERROR: line
ErrorStep(line) == <<"Error: ">> \o Replace(line, "ERROR:")

----------------------------------------------------------------------------
(* Navigation *)

Min(a, b) == IF a < b THEN a ELSE b

DownNoClamp(s) == s + 1

\* KeyCode::Down: selected.saturating_add(1).min(2)
Down(s) == Min(s + 1, 2)

\* KeyCode::Up: selected.saturating_sub(1)
Up(s) == IF s = 0 THEN 0 ELSE s - 1

----------------------------------------------------------------------------
(* Spawn arguments *)

Version(sel) ==
    CASE sel = 0 -> "master"
      [] sel = 1 -> "v1.0"
      [] OTHER   -> "custom-tag"

ModelArg(mc, url) ==
    IF mc = 0 THEN <<"--model=1">> ELSE <<"--custom-url=">> \o url

----------------------------------------------------------------------------
(* Phase of the install state machine, read off the program's state.  The   *)
(* code keeps no phase: it is at the URL prompt (AwaitingCustomInput), in   *)
(* run_install (Installing, or Failed once an ERROR: line broke the loop),  *)
(* past a run_install that returned Err (Failed) or Ok (Done), or has not   *)
(* called run_install yet (Selecting).                                      *)

ErrorSeen == child_out # <<>> /\ StartsWith(child_out[Len(child_out)], "ERROR:")

phase ==
    IF pc = "read_url" THEN "AwaitingCustomInput"
    ELSE IF install = "none" THEN "Selecting"
    ELSE IF install = "err" THEN "Failed"
    ELSE IF ErrorSeen THEN "Failed"
    ELSE IF install = "running" THEN "Installing"
    ELSE "Done"

----------------------------------------------------------------------------

Init ==
    /\ pc = "start"
    /\ ret = "none"
    /\ raw_mode = FALSE
    /\ alt_screen = FALSE
    /\ exit_status = "none"
    /\ exit_path = "none"
    /\ selected = 0
    /\ installing = FALSE
    /\ current_step = <<>>
    /\ model_choice = 0
    /\ custom_url = <<>>
    /\ input = NoInput
    /\ install = "none"
    /\ child = "none"
    /\ child_out = <<>>
    /\ exit_code = -1
    /\ args = <<>>
    /\ nspawn = 0
    /\ nwait = 0
    /\ steps = <<>>
    /\ to_write = 0
    /\ pipe = 0
    /\ nkeys = 0
    /\ last_key = "none"
    /\ prev_selected = 0
    /\ error_text = NoText
    /\ frame = <<>>

appVars == <<selected, installing, current_step, model_choice, custom_url>>
pipeVars == <<to_write, pipe>>
childVars == <<child, child_out, exit_code, args, nspawn, nwait, steps, pipeVars>>
keyVars == <<nkeys, last_key, prev_selected>>
termVars == <<raw_mode, alt_screen>>

\* `?` on an Err in main, or propagated to main: main returns the error at
\* once, skipping the cleanup at the end of main.
Abort(path) ==
    /\ pc' = "exited"
    /\ exit_status' = "err"
    /\ exit_path' = path

----------------------------------------------------------------------------
(* main: terminal setup *)

EnableRawMode ==
    /\ pc = "start"
    /\ raw_mode' = TRUE
    /\ pc' = "enter_alt"
    /\ UNCHANGED <<ret, alt_screen, exit_status, exit_path, appVars, input,
                   install, childVars, keyVars, error_text, frame>>

EnableRawModeFails ==
    /\ pc = "start"
    /\ Abort("setup_error")
    /\ UNCHANGED <<ret, termVars, appVars, input, install, childVars, keyVars,
                   error_text, frame>>

EnterAlternateScreen ==
    /\ pc = "enter_alt"
    /\ alt_screen' = TRUE
    /\ pc' = "term_new"
    /\ UNCHANGED <<ret, raw_mode, exit_status, exit_path, appVars, input,
                   install, childVars, keyVars, error_text, frame>>

EnterAlternateScreenFails ==
    /\ pc = "enter_alt"
    /\ Abort("setup_error")
    /\ UNCHANGED <<ret, termVars, appVars, input, install, childVars, keyVars,
                   error_text, frame>>

TerminalNew ==
    /\ pc = "term_new"
    /\ pc' = "draw"
    /\ UNCHANGED <<ret, termVars, exit_status, exit_path, appVars, input,
                   install, childVars, keyVars, error_text, frame>>

TerminalNewFails ==
    /\ pc = "term_new"
    /\ Abort("setup_error")
    /\ UNCHANGED <<ret, termVars, appVars, input, install, childVars, keyVars,
                   error_text, frame>>

----------------------------------------------------------------------------
(* terminal.draw(|f| draw_ui(f, &mut state)) *)

Rendered == [selected |-> selected, installing |-> installing,
             current_step |-> current_step]

\* draw_ui.  The frame is rendered from the state.  installing: the progress
\* panel is added and draw returns.  Otherwise model_choice is set and
\* draw_ui goes on to the URL prompt (model_choice = 1) or to run_install.
Draw ==
    /\ pc = "draw"
    /\ frame' = Rendered
    /\ IF installing
       THEN /\ pc' = "event"
            /\ UNCHANGED <<ret, install, child_out, steps, model_choice, input>>
       ELSE /\ model_choice' = selected
            /\ input' = NoInput
            /\ IF selected = 1
               THEN /\ pc' = "read_url"
                    /\ UNCHANGED <<ret, install, child_out, steps>>
               ELSE /\ pc' = "spawn"
                    /\ ret' = "draw"
                    /\ install' = "running"
                    /\ child_out' = <<>> /\ steps' = <<>>
    /\ UNCHANGED <<termVars, exit_status, exit_path, selected, installing,
                   current_step, custom_url, child, exit_code, args, nspawn,
                   nwait, pipeVars, keyVars, error_text>>

DrawFails ==
    /\ pc = "draw"
    /\ Abort("render_error")
    /\ UNCHANGED <<ret, termVars, appVars, input, install, childVars, keyVars,
                   error_text, frame>>

\* io::stdin().read_line(&mut input)?; custom_url = input.trim(); then
\* run_install(state)
ReadUrl ==
    /\ pc = "read_url"
    /\ \E text \in Inputs :
         /\ input' = text
         /\ custom_url' = Trim(text)
    /\ pc' = "spawn"
    /\ ret' = "draw"
    /\ install' = "running"
    /\ child_out' = <<>> /\ steps' = <<>>
    /\ UNCHANGED <<termVars, exit_status, exit_path, selected, installing,
                   current_step, model_choice, child, exit_code, args, nspawn,
                   nwait, pipeVars, keyVars, error_text, frame>>

ReadUrlFails ==
    /\ pc = "read_url"
    /\ Abort("input_error")
    /\ UNCHANGED <<ret, termVars, appVars, input, install, childVars, keyVars,
                   error_text, frame>>

----------------------------------------------------------------------------
(* run_install *)

\* Ok(()) from run_install: draw_ui returns and main reads an event, or
\* (after Enter) main breaks out of the loop.
ReturnOk ==
    /\ install' = "ok"
    /\ IF ret = "draw"
       THEN /\ pc' = "event"
            /\ exit_path' = exit_path
       ELSE /\ pc' = "cleanup_raw"
            /\ exit_path' = "finished"

Spawn ==
    /\ pc = "spawn"
    /\ child' = "running"
    /\ args' = <<"--version", Version(selected)>>
                 \o ModelArg(model_choice, custom_url)
    /\ nspawn' = nspawn + 1
    /\ nwait' = 0
    /\ exit_code' = -1
    /\ to_write' \in 0..MaxLines
    /\ pipe' = 0
    /\ pc' = "next_line"
    /\ UNCHANGED <<ret, termVars, exit_status, exit_path, appVars, input,
                   install, child_out, steps, keyVars, error_text, frame>>

SpawnFails ==
    /\ pc = "spawn"
    /\ install' = "err"
    /\ Abort("spawn_failed")
    /\ UNCHANGED <<ret, termVars, appVars, input, childVars, keyVars,
                   error_text, frame>>

\* lines.next_line() returned Some(line): one pass through the loop body.
NextLine ==
    /\ pc = "next_line"
    /\ pipe > 0
    /\ pipe' = pipe - 1
    /\ \E line \in Lines :
         /\ child_out' = Append(child_out, line)
         /\ IF StartsWith(line, "PROGRESS:")
            THEN /\ current_step' = ProgressStep(line)
                 /\ steps' = Append(steps, ProgressStep(line))
                 /\ pc' = "next_line"
                 /\ error_text' = error_text
            ELSE IF StartsWith(line, "ERROR:")
            THEN /\ current_step' = ErrorStep(line)
                 /\ steps' = steps
                 /\ pc' = "wait"
                 /\ error_text' = Tail(line)
            ELSE /\ current_step' = current_step
                 /\ steps' = steps
                 /\ pc' = "next_line"
                 /\ error_text' = error_text
    /\ UNCHANGED <<ret, termVars, exit_status, exit_path, selected, installing,
                   model_choice, custom_url, input, install, child, exit_code,
                   args, nspawn, nwait, to_write, keyVars, frame>>

\* lines.next_line() returned None: the child has exited, which closed the
\* write end of the pipe, and the pipe is drained.
NextLineEof ==
    /\ pc = "next_line"
    /\ child = "exited"
    /\ pipe = 0
    /\ pc' = "wait"
    /\ UNCHANGED <<ret, termVars, exit_status, exit_path, appVars, input,
                   install, childVars, keyVars, error_text, frame>>

\* lines.next_line() returned Err: `?` leaves run_install before child.wait()
NextLineFails ==
    /\ pc = "next_line"
    /\ install' = "err"
    /\ Abort("stream_error")
    /\ UNCHANGED <<ret, termVars, appVars, input, childVars, keyVars,
                   error_text, frame>>

\* child.wait().await? returned a status, which the code drops.
Wait ==
    /\ pc = "wait"
    /\ child = "exited"
    /\ \E code \in ExitCodes : exit_code' = code
    /\ child' = "reaped"
    /\ nwait' = nwait + 1
    /\ ReturnOk
    /\ UNCHANGED <<ret, termVars, exit_status, appVars, input, child_out, steps,
                   pipeVars, args,
                   nspawn, keyVars, error_text, frame>>

WaitFails ==
    /\ pc = "wait"
    /\ install' = "err"
    /\ Abort("wait_failed")
    /\ UNCHANGED <<ret, termVars, appVars, input, childVars, keyVars,
                   error_text, frame>>

----------------------------------------------------------------------------
(* The child process and the pipe Stdio::piped() puts on its stdout.  The   *)
(* child writes its lines one by one, blocks while the pipe is full, and    *)
(* exits once all of them are in the pipe.  Nothing kills it: it runs on    *)
(* when run_install or main has returned.                                   *)

ChildWrite ==
    /\ child = "running"
    /\ to_write > 0
    /\ pipe < PipeCap
    /\ to_write' = to_write - 1
    /\ pipe' = pipe + 1
    /\ UNCHANGED <<pc, ret, termVars, exit_status, exit_path, appVars, input,
                   install, child, child_out, exit_code, args, nspawn, nwait,
                   steps, keyVars, error_text, frame>>

ChildExit ==
    /\ child = "running"
    /\ to_write = 0
    /\ child' = "exited"
    /\ UNCHANGED <<pc, ret, termVars, exit_status, exit_path, appVars, input,
                   install, child_out, exit_code, args, nspawn, nwait, steps,
                   pipeVars, keyVars, error_text, frame>>

----------------------------------------------------------------------------
(* main: event::read() and the match on key.code *)

ReadEvent(e) ==
    /\ nkeys' = nkeys + 1
    /\ last_key' = e
    /\ prev_selected' = selected

KeyQuit ==
    /\ pc = "event"
    /\ nkeys < MaxKeys
    /\ ReadEvent("q")
    /\ pc' = "cleanup_raw"
    /\ exit_path' = "quit"
    /\ UNCHANGED <<ret, termVars, exit_status, appVars, input, install,
                   childVars, error_text, frame>>

KeyDown ==
    /\ pc = "event"
    /\ nkeys < MaxKeys
    /\ ReadEvent("Down")
    /\ selected' = Down(selected)
    /\ pc' = "draw"
    /\ UNCHANGED <<ret, termVars, exit_status, exit_path, installing,
                   current_step, model_choice, custom_url, input, install,
                   childVars, error_text, frame>>

KeyUp ==
    /\ pc = "event"
    /\ nkeys < MaxKeys
    /\ ReadEvent("Up")
    /\ selected' = Up(selected)
    /\ pc' = "draw"
    /\ UNCHANGED <<ret, termVars, exit_status, exit_path, installing,
                   current_step, model_choice, custom_url, input, install,
                   childVars, error_text, frame>>

\* state.installing = true; run_install(&mut state).await?; break
KeyEnter ==
    /\ pc = "event"
    /\ nkeys < MaxKeys
    /\ ReadEvent("Enter")
    /\ installing' = TRUE
    /\ pc' = "spawn"
    /\ ret' = "enter"
    /\ install' = "running"
    /\ child_out' = <<>> /\ steps' = <<>>
    /\ UNCHANGED <<termVars, exit_status, exit_path, selected, current_step,
                   model_choice, custom_url, input, child, exit_code, args,
                   nspawn, nwait, pipeVars, error_text, frame>>

\* any other key, or an event that is not a key: next loop iteration
KeyOther ==
    /\ pc = "event"
    /\ nkeys < MaxKeys
    /\ \E e \in Events \ {"q", "Down", "Up", "Enter"} : ReadEvent(e)
    /\ pc' = "draw"
    /\ UNCHANGED <<ret, termVars, exit_status, exit_path, appVars, input,
                   install, childVars, error_text, frame>>

EventFails ==
    /\ pc = "event"
    /\ nkeys < MaxKeys
    /\ Abort("input_error")
    /\ UNCHANGED <<ret, termVars, appVars, input, install, childVars, keyVars,
                   error_text, frame>>

----------------------------------------------------------------------------
(* main: cleanup *)

DisableRawMode ==
    /\ pc = "cleanup_raw"
    /\ raw_mode' = FALSE
    /\ pc' = "cleanup_alt"
    /\ UNCHANGED <<ret, alt_screen, exit_status, exit_path, appVars, input,
                   install, childVars, keyVars, error_text, frame>>

DisableRawModeFails ==
    /\ pc = "cleanup_raw"
    /\ Abort("cleanup_error")
    /\ UNCHANGED <<ret, termVars, appVars, input, install, childVars, keyVars,
                   error_text, frame>>

LeaveAlternateScreen ==
    /\ pc = "cleanup_alt"
    /\ alt_screen' = FALSE
    /\ pc' = "exited"
    /\ exit_status' = "ok"
    /\ UNCHANGED <<ret, raw_mode, exit_path, appVars, input, install,
                   childVars, keyVars, error_text, frame>>

LeaveAlternateScreenFails ==
    /\ pc = "cleanup_alt"
    /\ Abort("cleanup_error")
    /\ UNCHANGED <<ret, termVars, appVars, input, install, childVars, keyVars,
                   error_text, frame>>

----------------------------------------------------------------------------

Next ==
    \/ EnableRawMode
    \/ EnableRawModeFails
    \/ EnterAlternateScreen
    \/ EnterAlternateScreenFails
    \/ TerminalNew
    \/ TerminalNewFails
    \/ Draw
    \/ DrawFails
    \/ ReadUrl
    \/ ReadUrlFails
    \/ Spawn
    \/ SpawnFails
    \/ NextLine
    \/ NextLineEof
    \/ NextLineFails
    \/ Wait
    \/ WaitFails
    \/ ChildWrite
    \/ ChildExit
    \/ KeyQuit
    \/ KeyDown
    \/ KeyUp
    \/ KeyEnter
    \/ KeyOther
    \/ EventFails
    \/ DisableRawMode
    \/ DisableRawModeFails
    \/ LeaveAlternateScreen
    \/ LeaveAlternateScreenFails

Spec == Init /\ [][Next]_vars

TypeOK ==
    /\ selected \in 0..2
    /\ model_choice \in 0..2
    /\ installing \in BOOLEAN
    /\ install \in {"none", "running", "ok", "err"}
    /\ child \in {"none", "running", "exited", "reaped"}
    /\ to_write \in 0..MaxLines
    /\ pipe \in 0..PipeCap
    /\ Len(steps) <= Len(child_out)
    /\ exit_code \in ExitCodes \cup {-1}
    /\ Len(child_out) <= MaxLines
    /\ nkeys <= MaxKeys

----------------------------------------------------------------------------
(* Vocabulary of the claims *)

AllProgress(out) == \A i \in 1..Len(out) : StartsWith(out[i], "PROGRESS:")

\* The text of a protocol line: the line without its prefix.
TextOf(line) == Tail(line)

IsErrorStep(step) == StartsWith(step, "Error: ")

\* t occurs in s as a contiguous piece
Contains(s, t) ==
    \E i \in 0..(Len(s) - Len(t)) : SubSeq(s, i + 1, i + Len(t)) = t

IsBlank(text) == Trim(text) = <<>>

\* "process exited with code N"
ExitMessage(code) == <<"exit code", code>>

ClaimedExitPaths == {"quit", "finished", "spawn_failed", "stream_error",
                     "wait_failed", "render_error", "input_error"}

----------------------------------------------------------------------------
(* Claims *)

\* C1: on every path by which the program exits after acquiring the terminal
\* (quit, install finished, spawn failure, stream error, wait failure, render
\* or input error), raw mode and the alternate screen are released.
C1_TerminalReleasedOnExit ==
    (pc = "exited" /\ exit_path \in ClaimedExitPaths)
        => (~raw_mode /\ ~alt_screen)

\* C2: every Up/Down event leaves selected within [0,2] and changes it by at
\* most 1; Down at 2 and Up at 0 leave it unchanged.
C2_NavigationClamped ==
    [][ /\ selected' \in 0..2
        /\ selected' - selected \in {-1, 0, 1}
        /\ (nkeys' = nkeys + 1 /\ last_key' = "Down")
             => selected' = (IF selected = 2 THEN 2 ELSE selected + 1)
        /\ (nkeys' = nkeys + 1 /\ last_key' = "Up")
             => selected' = (IF selected = 0 THEN 0 ELSE selected - 1)
      ]_vars

\* C2 witness: Down was handled at selected = 2, and Up at 0 is the dual.
C2_Witness == last_key = "Down" /\ prev_selected = 2 /\ selected = 2

\* C3: after Enter with the custom variant selected and custom_url empty the
\* phase is AwaitingCustomInput (never Installing, no child spawned).
C3_ConfirmCustomAwaitsUrl ==
    (last_key = "Enter" /\ selected = 2 /\ custom_url = <<>>)
        => phase = "AwaitingCustomInput"

\* C4: a submitted URL that is empty or only white space leaves the phase at
\* AwaitingCustomInput and starts no install.
C4_BlankUrlRejected ==
    (input # NoInput /\ IsBlank(input))
        => (phase = "AwaitingCustomInput" /\ install # "running")

\* C5: a child that wrote only PROGRESS: lines and exited with code 0 ends
\* in phase Done with current_step the text of its last PROGRESS: line.
C5_ProgressThenExitZero ==
    (install = "ok" /\ exit_code = 0 /\ child_out # <<>>
       /\ AllProgress(child_out) /\ pc \in {"event", "cleanup_raw"})
        => (phase = "Done"
            /\ current_step = TextOf(child_out[Len(child_out)]))

\* C6: once an ERROR: line was seen the phase is Failed and current_step
\* contains the line's text, for the rest of the run.
C6_ErrorSticks ==
    error_text # NoText
        => (phase = "Failed" /\ Contains(current_step, error_text))

\* C7: a spawn failure is reported as an error message in current_step in
\* phase Failed; the event loop is not aborted by it.
C7_SpawnFailureReported ==
    exit_path = "spawn_failed"
        => (phase = "Failed" /\ IsErrorStep(current_step))

\* C8: once run_install is over, the exit status of the child it spawned
\* was obtained exactly once.
C8_ExitDeliveredOnce ==
    (install \in {"ok", "err"} /\ child # "none" /\ exit_path # "spawn_failed")
        => nwait = 1

\* C9: a non-zero exit code N without an ERROR: line yields Failed with a
\* message reporting N; only exit code 0 yields Done.
C9_NonZeroExitFails ==
    /\ (install = "ok" /\ exit_code > 0 /\ ~ErrorSeen
          /\ pc \in {"event", "cleanup_raw"})
         => (phase = "Failed" /\ current_step = ExitMessage(exit_code))
    /\ (phase = "Done" /\ pc \in {"event", "cleanup_raw"}) => exit_code = 0

\* C10: an I/O failure reading the child's output yields Failed with a
\* synthesized error message in current_step.
C10_StreamErrorReported ==
    exit_path = "stream_error"
        => (phase = "Failed" /\ IsErrorStep(current_step))

----------------------------------------------------------------------------
(* Vocabulary of the claims C11..C20 *)

\* The state changed in a way the operator can see and no frame shows it yet.
Dirty == frame # <<>> /\ frame # Rendered

ObservableChange ==
    \/ selected' # selected
    \/ installing' # installing
    \/ current_step' # current_step

\* Texts of the PROGRESS: lines of out, in order.
RECURSIVE ProgressTexts(_)
ProgressTexts(out) ==
    IF out = <<>> THEN <<>>
    ELSE IF StartsWith(Head(out), "PROGRESS:")
         THEN <<TextOf(Head(out))>> \o ProgressTexts(Tail(out))
         ELSE ProgressTexts(Tail(out))

\* The transition table of the install state machine.
PhaseEdges == { <<"Selecting", "AwaitingCustomInput">>,
                <<"Selecting", "Installing">>,
                <<"AwaitingCustomInput", "Installing">>,
                <<"Installing", "Done">>,
                <<"Installing", "Failed">> }

\* Arguments for a confirmed choice: version by variant, the URL for the
\* custom variant (index 2) and the built-in model otherwise.
ClaimedArgs(choice, url) ==
    <<"--version", Version(choice)>>
      \o (IF choice = 2 THEN <<"--custom-url=">> \o url ELSE <<"--model=1">>)

----------------------------------------------------------------------------
(* Claims C11..C20 *)

\* C11: every visible change of the state is rendered before the next
\* visible change overwrites it and before the program exits.
C11_MutationRendered ==
    [][ Dirty => (~ObservableChange /\ pc' # "exited") ]_vars

\* C12: the values the progress updates give current_step are, in order,
\* the texts of the PROGRESS: lines read from the child.
C12_ProgressInOrder ==
    install \in {"running", "ok"} => steps = ProgressTexts(child_out)

\* C13: the quit key ends the program only in phase Selecting.
C13_QuitOnlyInSelecting ==
    exit_path = "quit" => phase = "Selecting"

\* C14: the phase changes only along the edges of the transition table;
\* Done and Failed are never left.
C14_PhaseEdges ==
    [][ phase' # phase => <<phase, phase'>> \in PhaseEdges ]_vars

\* C15: once the phase has become Installing, model_choice and custom_url
\* never change.
C15_ChoiceFrozen ==
    [][ install # "none" => UNCHANGED <<model_choice, custom_url>> ]_vars

\* C16: custom_url is non-empty only if model_choice is the custom variant.
C16_UrlOnlyForCustom ==
    custom_url # <<>> => model_choice = 2

\* C17: the child's arguments are those of the confirmed choice.
C17_ArgsFromChoice ==
    pc \in {"next_line", "wait"} => args = ClaimedArgs(model_choice, custom_url)

\* C18: a child is spawned only after confirm(); when quit ends the program
\* no child was ever started.
C18_NoSpawnBeforeConfirm ==
    /\ nspawn > 0 => installing
    /\ exit_path = "quit" => nspawn = 0

\* C19: at most one child is spawned in one run of the program.
C19_AtMostOneChild ==
    nspawn <= 1

\* C20: the installer never waits for the child's exit while the child is
\* blocked writing to the full pipe that nobody reads any more.
C20_NoWaitOnBlockedChild ==
    ~(pc = "wait" /\ child = "running" /\ to_write > 0 /\ pipe = PipeCap)

====
